---- MODULE Spec2Model ----
(***************************************************************************)
(* The POST /summarize endpoint of app/main.py and the retry loop of       *)
(* LLMClient.summarize of app/llm_client.py, as one state machine.         *)
(*                                                                         *)
(* A Python str is a sequence of one-character strings, so that lower(),   *)
(* the "in" substring test and f-string formatting are computed and not    *)
(* assumed.  One request is followed from the construction of the clients  *)
(* to the response; each await of the handler is one action.               *)
(***************************************************************************)
EXTENDS Integers, Sequences, FiniteSets, TLC

(***************************************************************************)
(* Bounds of the model.                                                    *)
(***************************************************************************)
\* longest "technologies" array the model's reply carries
MaxTechLen == 3

(***************************************************************************)
(* Python str operations.                                                  *)
(***************************************************************************)
UpperAlphabet == <<"A","B","C","D","E","F","G","H","I","J","K","L","M","N","O","P","Q","R","S",
      "T","U","V","W","X","Y","Z">>
LowerAlphabet == <<"a","b","c","d","e","f","g","h","i","j","k","l","m","n","o","p","q","r","s",
      "t","u","v","w","x","y","z">>
Digits == <<"0","1","2","3","4","5","6","7","8","9">>

LowerChar(c) ==
  IF \E i \in 1..Len(UpperAlphabet) : UpperAlphabet[i] = c
  THEN LowerAlphabet[CHOOSE i \in 1..Len(UpperAlphabet) : UpperAlphabet[i] = c]
  ELSE c

\* str.lower()
Lower(s) == [i \in 1..Len(s) |-> LowerChar(s[i])]

\* sub in s
Contains(sub, s) ==
  \E i \in 0..(Len(s) - Len(sub)) : SubSeq(s, i + 1, i + Len(sub)) = sub

\* str(n) of a non-negative int
RECURSIVE IntToStr(_)
IntToStr(n) ==
  IF n < Len(Digits) THEN <<Digits[n + 1]>>
  ELSE IntToStr(n \div Len(Digits)) \o <<Digits[(n % Len(Digits)) + 1]>>

(***************************************************************************)
(* Texts of app/llm_client.py.                                             *)
(***************************************************************************)
max_json_retries == 3

\* SYSTEM_PROMPT: "Maximum 10 items." for the technologies array
MaxTechnologies == 10

S_Repository == <<"R","e","p","o","s","i","t","o","r","y",":"," ">>
S_Slash == <<"/">>
S_Newline == <<"\n">>
S_ApiCallFailed == <<"L","L","M"," ","A","P","I"," ","c","a","l","l"," ","f","a","i","l","e",
      "d",":"," ">>
S_EmptyResponse == <<"L","L","M"," ","r","e","t","u","r","n","e","d"," ","a","n"," ","e","m",
      "p","t","y"," ","r","e","s","p","o","n","s","e">>
S_ParseFailedAfter == <<"L","L","M"," ","r","e","s","p","o","n","s","e"," ","p","a","r","s","e",
      "/","v","a","l","i","d","a","t","i","o","n"," ","f","a","i","l","e","d"," ","a","f","t",
      "e","r"," ">>
S_Attempts == <<" ","a","t","t","e","m","p","t","s",":"," ">>

\* USER_PROMPT_TEMPLATE.format(owner=owner, repo=repo, context=context)
USER_PROMPT_TEMPLATE(owner, repo, context) ==
  S_Repository \o owner \o S_Slash \o repo \o S_Newline \o S_Newline \o context \o S_Newline

(***************************************************************************)
(* Texts of the Python runtime and of the json module.                     *)
(***************************************************************************)
S_IndexError == <<"l","i","s","t"," ","i","n","d","e","x"," ","o","u","t"," ","o","f"," ","r",
      "a","n","g","e">>
S_ExpectingValue == <<"E","x","p","e","c","t","i","n","g"," ","v","a","l","u","e",":"," ","l",
      "i","n","e"," ","1"," ","c","o","l","u","m","n"," ","1"," ","(","c","h","a","r"," ","0",
      ")">>
S_ExpectingValueAt13 == <<"E","x","p","e","c","t","i","n","g"," ","v","a","l","u","e",":"," ",
      "l","i","n","e"," ","1"," ","c","o","l","u","m","n"," ","1","3"," ","(","c","h","a","r",
      " ","1","2",")">>
S_ListHasNoGet == <<"'","l","i","s","t","'"," ","o","b","j","e","c","t"," ","h","a","s"," ","n",
      "o"," ","a","t","t","r","i","b","u","t","e"," ","'","g","e","t","'">>
S_NoneNotIterable == <<"'","N","o","n","e","T","y","p","e","'"," ","o","b","j","e","c","t"," ",
      "i","s"," ","n","o","t"," ","i","t","e","r","a","b","l","e">>
S_UnhashableDict == <<"u","n","h","a","s","h","a","b","l","e"," ","t","y","p","e",":"," ","'",
      "d","i","c","t","'">>

(***************************************************************************)
(* Texts of app/main.py.                                                   *)
(***************************************************************************)
TokAuthenticate == <<"a","u","t","h","e","n","t","i","c","a","t","e">>
TokAuthentication == <<"a","u","t","h","e","n","t","i","c","a","t","i","o","n">>
TokUnauthorized == <<"u","n","a","u","t","h","o","r","i","z","e","d">>
TokNotFound == <<"n","o","t"," ","f","o","u","n","d">>
S_KeyNotSet == <<"N","E","B","I","U","S","_","A","P","I","_","K","E","Y"," ","i","s"," ","n",
      "o","t"," ","s","e","t","."," ","S","e","t"," ","i","t"," ","i","n"," ","y","o","u","r",
      " ","e","n","v","i","r","o","n","m","e","n","t"," ","(","o","r"," ",".","e","n","v",")",
      ","," ","r","e","s","t","a","r","t","/","r","e","l","o","a","d"," ","t","h","e"," ","s",
      "e","r","v","e","r",","," ","t","h","e","n"," ","r","e","t","r","y",".">>
S_EmptyRepo == <<"R","e","p","o","s","i","t","o","r","y"," ","a","p","p","e","a","r","s"," ",
      "t","o"," ","b","e"," ","e","m","p","t","y",".">>
S_FailedToFetch == <<"F","a","i","l","e","d"," ","t","o"," ","f","e","t","c","h"," ","r","e",
      "p","o","s","i","t","o","r","y"," ","d","a","t","a",":"," ">>
S_AuthFailed == <<"L","L","M"," ","p","r","o","v","i","d","e","r"," ","a","u","t","h","e","n",
      "t","i","c","a","t","i","o","n"," ","f","a","i","l","e","d","."," ","C","h","e","c","k",
      " ","N","E","B","I","U","S","_","A","P","I","_","K","E","Y"," ","a","n","d"," ","r","e",
      "s","t","a","r","t","/","r","e","l","o","a","d"," ","t","h","e"," ","s","e","r","v","e",
      "r"," ","i","f"," ",".","e","n","v"," ","w","a","s"," ","c","h","a","n","g","e","d",".">>
S_LLMFailed == <<"L","L","M"," ","p","r","o","c","e","s","s","i","n","g"," ","f","a","i","l",
      "e","d","."," ","C","h","e","c","k"," ","s","e","r","v","e","r"," ","l","o","g","s"," ",
      "f","o","r"," ","d","e","t","a","i","l","s",".">>
S_InternalError == <<"I","n","t","e","r","n","a","l"," ","e","r","r","o","r"," ","d","u","r",
      "i","n","g"," ","s","u","m","m","a","r","i","z","a","t","i","o","n",":"," ">>
S_InvalidPayload == <<"I","n","v","a","l","i","d"," ","r","e","q","u","e","s","t"," ","p","a",
      "y","l","o","a","d",".">>

(***************************************************************************)
(* Exceptions: the type, str(e) and the exception it was raised "from".    *)
(***************************************************************************)
NoExc == [type |-> "", msg |-> <<>>, causeType |-> "", causeMsg |-> <<>>]

Exc(type, msg) == [type |-> type, msg |-> msg, causeType |-> "", causeMsg |-> <<>>]

\* raise LLMError(msg) from e
LLMErrorFrom(msg, e) ==
  [type |-> "LLMError", msg |-> msg, causeType |-> e.type, causeMsg |-> e.msg]

(***************************************************************************)
(* JSON values, by Python type after json.loads.  A dict carries the three *)
(* keys the code reads, each present or missing.                           *)
(***************************************************************************)
Missing == [t |-> "missing", v |-> <<>>]
JNull == [t |-> "null", v |-> <<>>]
JStr(s) == [t |-> "str", v |-> s]
JList(xs) == [t |-> "list", v |-> xs]
JInnerDict == [t |-> "dict", v |-> <<>>]

JObject(summary, technologies, structure) ==
  [t |-> "dict", summary |-> summary, technologies |-> technologies, structure |-> structure]

JArrayDoc == [t |-> "list", summary |-> Missing, technologies |-> Missing, structure |-> Missing]

\* data.get(key, default) reading a key the reply never has
DictGetWrongKey(data, key, default) == default

\* data[key] in place of data.get(key, default)
DictGetNoDefault(data, key, default) == data[key]

\* data.get(key, default)
DictGet(data, key, default) ==
  IF data[key].t = "missing" THEN default ELSE data[key]

(***************************************************************************)
(* What the hosted model can answer to one chat.completions.create call.   *)
(***************************************************************************)
T_Go == <<"G","o">>
T_go == <<"g","o">>
T_Rust == <<"R","u","s","t">>
TechNames == {T_Go, T_go, T_Rust}

RECURSIVE SeqsUpTo(_, _)
SeqsUpTo(S, n) ==
  IF n = 0 THEN {<<>>}
  ELSE LET shorter == SeqsUpTo(S, n - 1)
       IN shorter \cup {Append(s, x) : s \in {q \in shorter : Len(q) = n - 1}, x \in S}

T_Summary == <<"A","n"," ","H","T","T","P"," ","c","l","i","e","n","t",".">>
T_Structure == <<"C","o","r","e"," ","i","n"," ","s","r","c","/",".">>

SummaryFields == {Missing, JStr(<<>>), JStr(T_Summary)}
StructureFields == {Missing, JStr(T_Structure)}
TechnologiesFields ==
  {Missing, JNull, JStr(T_Go), JList(<<JInnerDict>>)}
    \cup {JList([i \in 1..Len(names) |-> JStr(names[i])]) : names \in SeqsUpTo(TechNames, MaxTechLen)}

JsonDocs ==
  {JArrayDoc}
    \cup {JObject(s, t, u) : s \in SummaryFields, t \in TechnologiesFields, u \in StructureFields}

T_Prose == <<"S","u","r","e","!"," ","H","e","r","e"," ","i","s"," ","t","h","e"," ","s","u",
      "m","m","a","r","y",".">>
T_Truncated == <<"{","\"","s","u","m","m","a","r","y","\"",":"," ">>
NonJsonTexts == {<<>>, T_Prose, T_Truncated}

NoDoc == JArrayDoc

\* message.content: None, a text that is no JSON document, or the text of a JSON document
Contents ==
  {[form |-> "None", text |-> <<>>, doc |-> NoDoc]}
    \cup {[form |-> "text", text |-> x, doc |-> NoDoc] : x \in NonJsonTexts}
    \cup {[form |-> "json", text |-> <<>>, doc |-> d] : d \in JsonDocs}

NoContent == [form |-> "None", text |-> <<>>, doc |-> NoDoc]

E_Authenticate == <<"E","r","r","o","r"," ","c","o","d","e",":"," ","4","0","1"," ","-"," ","C",
      "o","u","l","d","n","'","t"," ","a","u","t","h","e","n","t","i","c","a","t","e">>
E_Unauthorized == <<"E","r","r","o","r"," ","c","o","d","e",":"," ","4","0","1"," ","-"," ","U",
      "n","a","u","t","h","o","r","i","z","e","d">>
E_Authentication == <<"a","u","t","h","e","n","t","i","c","a","t","i","o","n">>
E_RateLimit == <<"E","r","r","o","r"," ","c","o","d","e",":"," ","4","2","9"," ","-"," ","r",
      "a","t","e"," ","l","i","m","i","t"," ","e","x","c","e","e","d","e","d">>
E_Connection == <<"C","o","n","n","e","c","t","i","o","n"," ","e","r","r","o","r",".">>

ApiErrors ==
  { [etype |-> "AuthenticationError", err |-> E_Authenticate],
    [etype |-> "AuthenticationError", err |-> E_Unauthorized],
    [etype |-> "AuthenticationError", err |-> E_Authentication],
    [etype |-> "RateLimitError", err |-> E_RateLimit],
    [etype |-> "APIConnectionError", err |-> E_Connection] }

ModelOutcomes ==
  {[kind |-> "raise", etype |-> e.etype, err |-> e.err, content |-> NoContent] : e \in ApiErrors}
    \cup {[kind |-> "nochoices", etype |-> "", err |-> <<>>, content |-> NoContent]}
    \cup {[kind |-> "response", etype |-> "", err |-> <<>>, content |-> c] : c \in Contents}

NoOutcome == [kind |-> "", etype |-> "", err |-> <<>>, content |-> NoContent]

(***************************************************************************)
(* LLMClient.summarize: one pass of the for loop.                          *)
(***************************************************************************)
NoResult == [summary |-> <<>>, technologies |-> <<>>, structure |-> <<>>]

Parsed(result) == [ok |-> TRUE, result |-> result, exc |-> NoExc]

Failed(e) == [ok |-> FALSE, result |-> NoResult, exc |-> e]

\* not raw
Falsy(raw) == raw.form = "None" \/ (raw.form = "text" /\ raw.text = <<>>)

\* str(e) of the json.JSONDecodeError for a text that is no JSON document
JsonDecodeMessage(text) ==
  IF text = T_Truncated THEN S_ExpectingValueAt13 ELSE S_ExpectingValue

\* json.loads(raw)
json_loads(raw) ==
  IF raw.form = "json"
  THEN [ok |-> TRUE, value |-> raw.doc, exc |-> NoExc]
  ELSE [ok |-> FALSE, value |-> NoDoc, exc |-> Exc("JSONDecodeError", JsonDecodeMessage(raw.text))]

\* set(x): the distinct elements of a list or the characters of a str; TypeError otherwise
PySet(x) ==
  IF x.t = "list"
  THEN IF \E i \in 1..Len(x.v) : x.v[i].t \in {"dict", "list"}
       THEN [ok |-> FALSE, elems |-> {}, exc |-> Exc("TypeError", S_UnhashableDict)]
       ELSE [ok |-> TRUE, elems |-> {x.v[i] : i \in 1..Len(x.v)}, exc |-> NoExc]
  ELSE IF x.t = "str"
       THEN [ok |-> TRUE, elems |-> {JStr(<<x.v[i]>>) : i \in 1..Len(x.v)}, exc |-> NoExc]
       ELSE [ok |-> FALSE, elems |-> {}, exc |-> Exc("TypeError", S_NoneNotIterable)]

\* list(s) of a set: its elements in the set's iteration order, which for str
\* elements follows their randomized hashes, so every order can come out
PyListOfSet(S) ==
  {o \in [1..Cardinality(S) -> S] : \A i, j \in 1..Cardinality(S) : o[i] = o[j] => i = j}

\* SummarizeResponse(summary=..., technologies=..., structure=...) of app/models.py:
\* a str, a list of str and a str, stored as given
SummarizeResponse(summary, technologies, structure) ==
  [ summary |-> summary.v,
    technologies |-> [i \in 1..Len(technologies.v) |-> technologies.v[i].v],
    structure |-> structure.v ]

\* lines 103-107: the response built from the parsed value
BuildResponse(data) ==
  IF data.t # "dict"
  THEN {Failed(Exc("AttributeError", S_ListHasNoGet))}
  ELSE LET s == PySet(DictGet(data, "technologies", JList(<<>>)))
       IN IF ~s.ok
          THEN {Failed(s.exc)}
          ELSE { Parsed(SummarizeResponse(DictGet(data, "summary", JStr(<<>>)),
                                          JList(o),
                                          DictGet(data, "structure", JStr(<<>>))))
                 : o \in PyListOfSet(s.elems) }

\* lines 98-107: the body of the second try
ParseReply(raw) ==
  IF Falsy(raw)
  THEN {Failed(Exc("ValueError", S_EmptyResponse))}
  ELSE LET j == json_loads(raw)
       IN IF ~j.ok THEN {Failed(j.exc)} ELSE BuildResponse(j.value)

Continue == [next |-> "continue", result |-> NoResult, exc |-> NoExc]

Return(result) == [next |-> "return", result |-> result, exc |-> NoExc]

Raise(e) == [next |-> "raise", result |-> NoResult, exc |-> e]

\* an API failure handled like a parse failure: the loop goes on
OnApiFailureRetried(e) == Continue

\* lines 92-94: except Exception around the API call
OnApiFailure(e) == Raise(LLMErrorFrom(S_ApiCallFailed \o e.msg, e))

\* the last attempt taken one pass too early
OnParseFailureEarly(attempt, e) ==
  IF attempt >= max_json_retries - 1
  THEN Raise(LLMErrorFrom(S_ParseFailedAfter \o IntToStr(max_json_retries) \o S_Attempts \o e.msg, e))
  ELSE Continue

\* lines 108-122: except Exception around parsing
OnParseFailure(attempt, e) ==
  IF attempt = max_json_retries
  THEN Raise(LLMErrorFrom(S_ParseFailedAfter \o IntToStr(max_json_retries) \o S_Attempts \o e.msg, e))
  ELSE Continue

\* line 96: response.choices[0].message.content, outside both try blocks
ReadContent(out) ==
  IF out.kind = "nochoices"
  THEN [ok |-> FALSE, raw |-> NoContent, exc |-> Exc("IndexError", S_IndexError)]
  ELSE [ok |-> TRUE, raw |-> out.content, exc |-> NoExc]

\* lines 74-122: what one pass does with the outcome of its API call (lines
\* 86-91 only print the token usage of the response)
Attempt(out, attempt) ==
  IF out.kind = "raise"
  THEN {OnApiFailure(Exc(out.etype, out.err))}
  ELSE LET c == ReadContent(out)
       IN IF ~c.ok
          THEN {Raise(c.exc)}
          ELSE { IF p.ok THEN Return(p.result) ELSE OnParseFailure(attempt, p.exc)
                 : p \in ParseReply(c.raw) }

(***************************************************************************)
(* The endpoint of app/main.py.                                            *)
(***************************************************************************)
\* the token test without lower()
is_llm_auth_error_case_sensitive(error) ==
  \E token \in {TokAuthenticate, TokAuthentication, TokUnauthorized} : Contains(token, error.msg)

\* str(error).lower() contains one of the three tokens
is_llm_auth_error(error) ==
  LET msg == Lower(error.msg)
  IN \E token \in {TokAuthenticate, TokAuthentication, TokUnauthorized} : Contains(token, msg)

\* ErrorResponse(message=...).model_dump() of app/models.py
ErrorResponse(message) == [status |-> "error", message |-> message]

NoError == [status |-> "", message |-> <<>>]

JSONResponse(status_code, content) ==
  [status_code |-> status_code, error |-> content, body |-> NoResult]

NoResponse == [status_code |-> 0, error |-> NoError, body |-> NoResult]

\* the error text sent to the client, as the GitHub branch does
OnLLMErrorEchoed(e) ==
  IF is_llm_auth_error(e)
  THEN JSONResponse(500, ErrorResponse(S_AuthFailed))
  ELSE JSONResponse(502, ErrorResponse(e.msg))

\* lines 111-128: except LLMError
OnLLMError(e) ==
  IF is_llm_auth_error(e)
  THEN JSONResponse(500, ErrorResponse(S_AuthFailed))
  ELSE JSONResponse(502, ErrorResponse(S_LLMFailed))

\* lines 129-136: except Exception
OnSummarizeException(e) ==
  JSONResponse(500, ErrorResponse(S_InternalError \o e.msg))

\* "not found" looked for in str(e) as it is
OnGitHubClientErrorCaseSensitive(e) ==
  JSONResponse(IF Contains(TokNotFound, e.msg) THEN 404 ELSE 502, ErrorResponse(e.msg))

\* lines 89-95: except GitHubClientError
OnGitHubClientError(e) ==
  JSONResponse(IF Contains(TokNotFound, Lower(e.msg)) THEN 404 ELSE 502, ErrorResponse(e.msg))

\* the answer of lines 129-136 given in the fetch phase
OnFetchExceptionAs500(e) ==
  JSONResponse(500, ErrorResponse(S_FailedToFetch \o e.msg))

\* lines 96-103: except Exception
OnFetchException(e) ==
  JSONResponse(502, ErrorResponse(S_FailedToFetch \o e.msg))

\* the emptiness check left out
NotFilesSkipped(fs) == FALSE

\* line 77: not files
NotFiles(fs) == Len(fs) = 0

\* lines 78-83
EmptyRepositoryResponse == JSONResponse(400, ErrorResponse(S_EmptyRepo))

\* the framework's own answer to an HTTPException: {"detail": ...}
http_exception_handler_default(status_code, detail) ==
  [status_code |-> status_code, error |-> NoError, body |-> NoResult]

\* lines 151-157: the handler of the HTTPException that _get_llm_client raises
http_exception_handler(status_code, detail) ==
  JSONResponse(status_code, ErrorResponse(detail))

\* the framework's own answer to a RequestValidationError: {"detail": [...]}
request_validation_error_handler_default(errors) ==
  [status_code |-> 422, error |-> NoError, body |-> NoResult]

\* lines 140-148: the handler of RequestValidationError; errors is exc.errors()
request_validation_error_handler(errors) ==
  LET default == JStr(S_InvalidPayload)
      message == IF errors # <<>> THEN DictGet(errors[1], "msg", default) ELSE default
  IN JSONResponse(422, ErrorResponse(message.v))

\* the check of the key left out
NotApiKeyIgnored(api_key) == FALSE

\* line 41: not api_key
NotApiKey(api_key) == api_key = <<>>

\* the body without the technologies
OkResponseStripped(result) ==
  [status_code |-> 200, error |-> NoError, body |-> [result EXCEPT !.technologies = <<>>]]

\* a returned SummarizeResponse, serialized by the framework
OkResponse(result) == [status_code |-> 200, error |-> NoError, body |-> result]

\* the repository named the other way round
SummarizeArgsSwapped(o, r, c) == [owner |-> r, repo |-> o, context |-> c]

\* the context left behind
SummarizeArgsNoContext(o, r, c) == [owner |-> o, repo |-> r, context |-> <<>>]

\* line 108: the arguments of llm.summarize(owner, repo, context)
SummarizeArgs(o, r, c) == [owner |-> o, repo |-> r, context |-> c]

(***************************************************************************)
(* The requests, the environment and the answers of GitHub.                *)
(***************************************************************************)
R_psf == <<"p","s","f">>
R_requests == <<"r","e","q","u","e","s","t","s">>
R_acme == <<"a","c","m","e">>
R_empty_repo == <<"e","m","p","t","y","-","r","e","p","o">>
Requests == {[owner |-> R_psf, repo |-> R_requests], [owner |-> R_acme, repo |-> R_empty_repo]}

S_GithubPrefix == <<"h","t","t","p","s",":","/","/","g","i","t","h","u","b",".","c","o","m","/">>
U_NotGithub == <<"n","o","t","-","a","-","g","i","t","h","u","b","-","u","r","l">>
V_JsonDecode == <<"J","S","O","N"," ","d","e","c","o","d","e"," ","e","r","r","o","r">>
V_FieldRequired == <<"F","i","e","l","d"," ","r","e","q","u","i","r","e","d">>
V_StringType == <<"I","n","p","u","t"," ","s","h","o","u","l","d"," ","b","e"," ","a"," ","v",
      "a","l","i","d"," ","s","t","r","i","n","g">>
V_NotGithubUrl == <<"V","a","l","u","e"," ","e","r","r","o","r",","," ","g","i","t","h","u","b",
      "_","u","r","l"," ","m","u","s","t"," ","b","e"," ","a"," ","G","i","t","H","u","b"," ",
      "r","e","p","o","s","i","t","o","r","y"," ","U","R","L">>

JInt(n) == [t |-> "int", v |-> n]

\* the URL of a repository
GithubUrl(r) == S_GithubPrefix \o r.owner \o S_Slash \o r.repo

\* the request bodies: malformed JSON, {}, {"github_url": 123},
\* {"github_url": "not-a-github-url"} and the URLs of the repositories
Bodies ==
  {[json |-> "malformed", github_url |-> Missing]} \cup
  {[json |-> "ok", github_url |-> u] :
     u \in {Missing, JInt(123), JStr(U_NotGithub)} \cup {JStr(GithubUrl(r)) : r \in Requests}}

\* s.startswith(prefix)
StartsWith(prefix, s) == Len(s) >= Len(prefix) /\ SubSeq(s, 1, Len(prefix)) = prefix

\* s.find(sub) + 1: where sub first begins in s, 0 when nowhere
Find(sub, s) ==
  IF Contains(sub, s)
  THEN 1 + CHOOSE i \in 0..(Len(s) - Len(sub)) :
             /\ SubSeq(s, i + 1, i + Len(sub)) = sub
             /\ \A j \in 0..(i - 1) : SubSeq(s, j + 1, j + Len(sub)) # sub
  ELSE 0

\* SummarizeRequest.parse_owner_repo() of app/models.py
parse_owner_repo(url) ==
  LET path == SubSeq(url, Len(S_GithubPrefix) + 1, Len(url))
      i == Find(S_Slash, path)
  IN [owner |-> SubSeq(path, 1, i - 1), repo |-> SubSeq(path, i + 1, Len(path))]

\* the validator of SummarizeRequest.github_url of app/models.py
IsGithubRepoUrl(url) ==
  /\ StartsWith(S_GithubPrefix, url)
  /\ LET p == parse_owner_repo(url)
     IN p.owner # <<>> /\ p.repo # <<>> /\ ~Contains(S_Slash, p.repo)

\* exc.errors() of the RequestValidationError the framework raises for the
\* body, <<>> when the body is a valid SummarizeRequest
ValidationErrors(b) ==
  IF b.json = "malformed" THEN <<[msg |-> JStr(V_JsonDecode)]>>
  ELSE IF b.github_url.t = "missing" THEN <<[msg |-> JStr(V_FieldRequired)]>>
  ELSE IF b.github_url.t # "str" THEN <<[msg |-> JStr(V_StringType)]>>
  ELSE IF ~IsGithubRepoUrl(b.github_url.v) THEN <<[msg |-> JStr(V_NotGithubUrl)]>>
  ELSE <<>>

K_Key == <<"s","k","-","t","e","s","t">>
ApiKeys == {<<>>, K_Key}

G_NotFound == <<"R","e","p","o","s","i","t","o","r","y"," ","N","o","t"," ","F","o","u","n","d">>
G_RateLimit == <<"G","i","t","H","u","b"," ","A","P","I"," ","r","a","t","e"," ","l","i","m",
      "i","t"," ","e","x","c","e","e","d","e","d">>
X_Timeout == <<"t","i","m","e","d"," ","o","u","t">>

GitHubFailures ==
  { [kind |-> "GitHubClientError", msg |-> G_NotFound],
    [kind |-> "GitHubClientError", msg |-> G_RateLimit],
    [kind |-> "Exception", msg |-> X_Timeout] }

P_Readme == <<"R","E","A","D","M","E",".","m","d">>
P_Api == <<"r","e","q","u","e","s","t","s","/","a","p","i",".","p","y">>
FileLists == {<<>>, <<P_Readme, P_Api>>}

S_DirectoryStructure == <<"#","#"," ","D","i","r","e","c","t","o","r","y"," ","S","t","r","u",
      "c","t","u","r","e">>

RECURSIVE JoinLines(_)
JoinLines(paths) ==
  IF paths = <<>> THEN <<>> ELSE Head(paths) \o S_Newline \o JoinLines(Tail(paths))

S_FileContents == <<"#","#"," ","F","i","l","e"," ","C","o","n","t","e","n","t","s">>
S_FileLabel == <<"#","#","#"," ">>
F_Readme == <<"#"," ","R","e","q","u","e","s","t","s">>
F_Api == <<"i","m","p","o","r","t"," ","h","t","t","p",".","c","l","i","e","n","t">>

\* fetch_file_content(file)
FileContent(path) == IF path = P_Readme THEN F_Readme ELSE F_Api

\* the files whose content is included: the walk of the ranked list ends
\* when the budget is used up, here after the first file
SelectFiles(fs) == IF fs = <<>> THEN <<>> ELSE <<Head(fs)>>

\* one labeled block per included file
RECURSIVE FileBlocks(_)
FileBlocks(selected) ==
  IF selected = <<>> THEN <<>>
  ELSE S_FileLabel \o Head(selected) \o S_Newline \o FileContent(Head(selected)) \o S_Newline
         \o FileBlocks(Tail(selected))

\* collect_repo_context(github, files) of app/repo_processor.py: the directory
\* section with every path, then the contents of the selected files
collect_repo_context(fs) ==
  S_DirectoryStructure \o S_Newline \o JoinLines(fs)
    \o S_FileContents \o S_Newline \o FileBlocks(SelectFiles(fs))

\* how a failed GitHub step leaves the try block (lines 89-103)
OnGitHubFailure(f) ==
  IF f.kind = "GitHubClientError"
  THEN OnGitHubClientError(Exc(f.kind, f.msg))
  ELSE OnFetchException(Exc(f.kind, f.msg))

\* one entry of the log: the collaborator call and how it ended
Called(call, result) == [call |-> call, result |-> result]

\* the Python types found in the outcome of one model call
Shape(out) ==
  LET doc == out.content.doc
  IN [ kind |-> out.kind,
       form |-> out.content.form,
       type |-> doc.t,
       summary |-> doc.summary.t,
       technologies |-> doc.technologies.t,
       elements |-> IF doc.technologies.t = "list"
                    THEN {doc.technologies.v[i].t : i \in 1..Len(doc.technologies.v)}
                    ELSE {},
       structure |-> doc.structure.t ]

(***************************************************************************)
(* State.                                                                  *)
(***************************************************************************)
VARIABLES
  pc,          \* where the handler is
  body,        \* the body of the POST request
  raised,      \* the exception that left the try block of lines 72-87
  apiKey,      \* os.environ NEBIUS_API_KEY
  owner,       \* request.parse_owner_repo()
  repo,
  files,       \* the result of get_repo_tree
  context,     \* the result of collect_repo_context
  pending,     \* the response a return inside the try holds while finally runs
  response,    \* the HTTP response sent
  log,         \* the calls made to the collaborators, in order
  args,        \* the arguments llm.summarize was called with
  user_prompt, \* local of LLMClient.summarize
  attempt,     \* loop variable of LLMClient.summarize
  calls,       \* the user messages sent to the model, in order
  replies,     \* per model call, how it ended and the Python types of its content
  last,        \* the outcome of the latest model call
  llmResult    \* how LLMClient.summarize ended

vars ==
  << pc, body, raised, apiKey, owner, repo, files, context, pending, response, log, args,
     user_prompt, attempt, calls, replies, last, llmResult >>

llmVars == <<args, user_prompt, attempt, calls, replies, last, llmResult>>

NoArgs == [owner |-> <<>>, repo |-> <<>>, context |-> <<>>]

NoLLMResult == [kind |-> "none", result |-> NoResult, exc |-> NoExc]

Init ==
  /\ pc = "request"
  /\ body \in Bodies
  /\ raised = NoExc
  /\ apiKey \in ApiKeys
  /\ owner = <<>>
  /\ repo = <<>>
  /\ files = <<>>
  /\ context = <<>>
  /\ pending = NoResponse
  /\ response = NoResponse
  /\ log = <<>>
  /\ args = NoArgs
  /\ user_prompt = <<>>
  /\ attempt = 0
  /\ calls = <<>>
  /\ replies = <<>>
  /\ last = NoOutcome
  /\ llmResult = NoLLMResult

(***************************************************************************)
(* The framework validates the body against SummarizeRequest before the    *)
(* handler runs; main.py line 65 then takes the owner and the repository.  *)
(***************************************************************************)
ValidateRequest ==
  /\ pc = "request"
  /\ LET errors == ValidationErrors(body)
     IN IF errors # <<>>
        THEN /\ response' = request_validation_error_handler(errors)
             /\ pc' = "done"
             /\ UNCHANGED <<owner, repo>>
        ELSE /\ owner' = parse_owner_repo(body.github_url.v).owner
             /\ repo' = parse_owner_repo(body.github_url.v).repo
             /\ pc' = "start"
             /\ UNCHANGED response
  /\ UNCHANGED <<body, raised, apiKey, files, context, pending, log, llmVars>>

\* the clients constructed with the key not looked at
GetLLMClientUnchecked ==
  /\ pc = "start"
  /\ log' = Append(log, Called("GitHubClient", "ok"))
  /\ pc' = "branch"
  /\ UNCHANGED <<body, raised, apiKey, owner, repo, files, context, pending, response, llmVars>>

(***************************************************************************)
(* main.py lines 68-70: the clients.  _get_llm_client raises               *)
(* HTTPException(500) when NEBIUS_API_KEY is unset or empty.               *)
(***************************************************************************)
GetLLMClient ==
  /\ pc = "start"
  /\ log' = Append(log, Called("GitHubClient", "ok"))
  /\ IF NotApiKey(apiKey)
     THEN /\ response' = http_exception_handler(500, S_KeyNotSet)
          /\ pc' = "done"
     ELSE /\ pc' = "branch"
          /\ UNCHANGED response
  /\ UNCHANGED <<body, raised, apiKey, owner, repo, files, context, pending, llmVars>>

\* line 73
GetDefaultBranch ==
  /\ pc = "branch"
  /\ \/ /\ pc' = "tree"
        /\ log' = Append(log, Called("get_default_branch", "ok"))
        /\ UNCHANGED <<pending, raised>>
     \/ \E f \in GitHubFailures :
          /\ raised' = Exc(f.kind, f.msg)
          /\ pending' = OnGitHubFailure(f)
          /\ log' = Append(log, Called("get_default_branch", f.kind))
          /\ pc' = "finally"
  /\ UNCHANGED <<body, apiKey, owner, repo, files, context, response, llmVars>>

\* lines 76-84
GetRepoTree ==
  /\ pc = "tree"
  /\ \/ \E fs \in FileLists :
          /\ files' = fs
          /\ log' = Append(log, Called("get_repo_tree", "ok"))
          /\ IF NotFiles(fs)
             THEN pending' = EmptyRepositoryResponse /\ pc' = "finally"
             ELSE pc' = "context" /\ UNCHANGED pending
          /\ UNCHANGED raised
     \/ \E f \in GitHubFailures :
          /\ raised' = Exc(f.kind, f.msg)
          /\ pending' = OnGitHubFailure(f)
          /\ log' = Append(log, Called("get_repo_tree", f.kind))
          /\ pc' = "finally"
          /\ UNCHANGED files
  /\ UNCHANGED <<body, apiKey, owner, repo, context, response, llmVars>>

\* lines 86-87
CollectRepoContext ==
  /\ pc = "context"
  /\ \/ /\ context' = collect_repo_context(files)
        /\ log' = Append(log, Called("collect_repo_context", "ok"))
        /\ pc' = "finally"
        /\ UNCHANGED <<pending, raised>>
     \/ \E f \in GitHubFailures :
          /\ raised' = Exc(f.kind, f.msg)
          /\ pending' = OnGitHubFailure(f)
          /\ log' = Append(log, Called("collect_repo_context", f.kind))
          /\ pc' = "finally"
          /\ UNCHANGED context
  /\ UNCHANGED <<body, apiKey, owner, repo, files, response, llmVars>>

\* lines 104-105: finally: await github.close(); then the pending return, or line 107
Close ==
  /\ pc = "finally"
  /\ log' = Append(log, Called("close", "ok"))
  /\ IF pending # NoResponse
     THEN response' = pending /\ pc' = "done"
     ELSE pc' = "summarize" /\ UNCHANGED response
  /\ UNCHANGED <<body, raised, apiKey, owner, repo, files, context, pending, llmVars>>

\* main.py line 108 and llm_client.py lines 69-73: llm.summarize is entered
CallSummarize ==
  /\ pc = "summarize"
  /\ log' = Append(log, Called("llm.summarize", "entered"))
  /\ args' = SummarizeArgs(owner, repo, context)
  /\ user_prompt' = USER_PROMPT_TEMPLATE(args'.owner, args'.repo, args'.context)
  /\ attempt' = 1
  /\ pc' = "llm"
  /\ UNCHANGED <<body, raised, apiKey, owner, repo, files, context, pending, response, calls, replies, last, llmResult>>

\* llm_client.py lines 73-122: one pass of the loop, from the API call to
\* return, raise or continue (line 124, after the loop, is never reached)
ModelCall ==
  /\ pc = "llm"
  /\ attempt \in 1..max_json_retries
  /\ \E out \in ModelOutcomes : \E o \in Attempt(out, attempt) :
       /\ calls' = Append(calls, user_prompt)
       /\ replies' = Append(replies, Shape(out))
       /\ log' = Append(log, Called("chat.completions.create", out.kind))
       /\ last' = out
       /\ IF o.next = "continue"
          THEN /\ attempt' = attempt + 1
               /\ UNCHANGED <<pc, llmResult>>
          ELSE /\ llmResult' = [kind |-> o.next, result |-> o.result, exc |-> o.exc]
               /\ pc' = "respond"
               /\ UNCHANGED attempt
  /\ UNCHANGED <<body, raised, apiKey, owner, repo, files, context, pending, response, args, user_prompt>>

\* main.py lines 107-136: the result of llm.summarize becomes the response
Respond ==
  /\ pc = "respond"
  /\ response' =
       IF llmResult.kind = "return" THEN OkResponse(llmResult.result)
       ELSE IF llmResult.exc.type = "LLMError" THEN OnLLMError(llmResult.exc)
       ELSE OnSummarizeException(llmResult.exc)
  /\ pc' = "done"
  /\ UNCHANGED <<body, raised, apiKey, owner, repo, files, context, pending, log, llmVars>>

Next ==
  \/ ValidateRequest
  \/ GetLLMClient
  \/ GetDefaultBranch
  \/ GetRepoTree
  \/ CollectRepoContext
  \/ Close
  \/ CallSummarize
  \/ ModelCall
  \/ Respond

Spec == Init /\ [][Next]_vars

(***************************************************************************)
(* Vocabulary of the properties.                                           *)
(***************************************************************************)
\* the call succeeded and its reply body is empty or is no JSON document
Unparseable(r) == r.kind = "response" /\ r.form \in {"None", "text"}

\* the call succeeded and its reply body is a JSON document
ParsesAsJson(r) == r.kind = "response" /\ r.form = "json"

\* ... whose top-level value is an object
JsonObjectReply(r) == ParsesAsJson(r) /\ r.type = "dict"

\* ... whose three fields are each missing or of the expected type
WellTypedReply(r) ==
  /\ JsonObjectReply(r)
  /\ r.summary \in {"missing", "str"}
  /\ r.structure \in {"missing", "str"}
  /\ \/ r.technologies = "missing"
     \/ r.technologies = "list" /\ r.elements \subseteq {"str"}

TextOrEmpty(field) == IF field.t = "str" THEN field.v ELSE <<>>

NamesOf(field) ==
  IF field.t = "list" THEN {field.v[i].v : i \in 1..Len(field.v)} ELSE {}

\* result carries the summary, the structure and the technology names of doc
BuiltFrom(result, doc) ==
  /\ result.summary = TextOrEmpty(doc.summary)
  /\ result.structure = TextOrEmpty(doc.structure)
  /\ {result.technologies[i] : i \in 1..Len(result.technologies)} = NamesOf(doc.technologies)

Raised(type) == llmResult.kind = "raise" /\ llmResult.exc.type = type

C2_ApiFailureIsFinal ==
  \A k \in 1..Len(replies) :
    replies[k].kind = "raise"
      => /\ Len(replies) = k
         /\ Len(calls) = k
         /\ Raised("LLMError")
         /\ llmResult.exc.causeType = last.etype
         /\ llmResult.exc.causeMsg = last.err
         /\ Contains(last.err, llmResult.exc.msg)

C2_ApiFailureAfterParseFailures ==
  /\ Len(replies) = 3
  /\ Unparseable(replies[1])
  /\ Unparseable(replies[2])
  /\ replies[3].kind = "raise"
  /\ Raised("LLMError")

(***************************************************************************)
(* C3.  An empty or non-JSON reply on attempt 1 or 2 leaves summarize      *)
(* about to make one more call, which carries the same prompt; on attempt  *)
(* 3 it makes summarize raise LLMError.                                    *)
(***************************************************************************)
C3_ParseFailureRetriesThenFails ==
  \A k \in 1..Len(replies) :
    Unparseable(replies[k])
      => IF k \in {1, 2}
         THEN /\ (Len(replies) = k =>
                    /\ llmResult.kind = "none"
                    /\ pc = "llm"
                    /\ attempt = k + 1
                    /\ ENABLED ModelCall)
              /\ (Len(replies) > k => /\ Len(calls) > k
                                      /\ calls[k + 1] = calls[k])
         ELSE /\ k = 3
              /\ Len(replies) = 3
              /\ Len(calls) = 3
              /\ Raised("LLMError")

C3_ThreeParseFailures ==
  /\ Len(replies) = 3
  /\ \A k \in 1..3 : Unparseable(replies[k])
  /\ calls[2] = calls[1]
  /\ calls[3] = calls[1]
  /\ Raised("LLMError")

(***************************************************************************)
(* C4.  A reply that is a JSON object whose fields are each missing or     *)
(* well-typed ends summarize on that attempt with a returned result, with  *)
(* no further call; a missing summary or structure comes out as the empty  *)
(* string and missing technologies as the empty list, and an empty field   *)
(* is returned as it is.                                                   *)
(***************************************************************************)
C4_WellTypedJsonReturnsAtOnce ==
  \A k \in 1..Len(replies) :
    WellTypedReply(replies[k])
      => /\ Len(replies) = k
         /\ Len(calls) = k
         /\ llmResult.kind = "return"
         /\ (replies[k].summary = "missing" => llmResult.result.summary = <<>>)
         /\ (replies[k].technologies = "missing" => llmResult.result.technologies = <<>>)
         /\ (replies[k].structure = "missing" => llmResult.result.structure = <<>>)
         /\ (replies[k].summary = "str" => llmResult.result.summary = last.content.doc.summary.v)

C4_EmptyObjectReturned ==
  /\ Len(replies) = 1
  /\ JsonObjectReply(replies[1])
  /\ replies[1].summary = "missing"
  /\ replies[1].technologies = "missing"
  /\ replies[1].structure = "missing"
  /\ llmResult.kind = "return"
  /\ llmResult.result = [summary |-> <<>>, technologies |-> <<>>, structure |-> <<>>]

\* C4 as stated: whatever parses as JSON is returned on that attempt
C4_AnyJsonReturnsAtOnce ==
  \A k \in 1..Len(replies) :
    ParsesAsJson(replies[k]) => Len(replies) = k /\ llmResult.kind = "return"

(***************************************************************************)
(* C5.  summarize makes at most 3 model calls, and once it has ended it    *)
(* has made at least one, as many as the attempt it ended on, and it has   *)
(* either returned a SummarizeResponse or raised LLMError.                 *)
(***************************************************************************)
C5_EndsWithin3CallsByReturnOrLLMError ==
  /\ Len(calls) <= 3
  /\ llmResult.kind # "none"
       => /\ Len(calls) >= 1
          /\ Len(calls) = attempt
          /\ llmResult.kind = "return" \/ Raised("LLMError")

(***************************************************************************)
(* C6.  Whatever the model call yields, no exception other than LLMError   *)
(* leaves summarize.                                                       *)
(***************************************************************************)
C6_OnlyLLMErrorEscapes ==
  llmResult.kind = "raise" => llmResult.exc.type = "LLMError"

(***************************************************************************)
(* C7.  The technologies summarize returns hold no two entries that are    *)
(* equal or differ only in letter case, and at most 10 entries.            *)
(***************************************************************************)
C7_TechnologiesDeduplicatedAndCapped ==
  llmResult.kind = "return"
    => LET t == llmResult.result.technologies
       IN /\ \A i, j \in 1..Len(t) : Lower(t[i]) = Lower(t[j]) => i = j
          /\ Len(t) <= MaxTechnologies

(***************************************************************************)
(* C8.  When get_repo_tree returns an empty list, the response is 400      *)
(* "Repository appears to be empty." and neither collect_repo_context nor  *)
(* the model is ever called for the request.                               *)
(***************************************************************************)
TreeReturnedEmpty ==
  /\ \E i \in 1..Len(log) : log[i] = Called("get_repo_tree", "ok")
  /\ files = <<>>

C8_EmptyRepositoryIs400 ==
  TreeReturnedEmpty
    => /\ \A i \in 1..Len(log) :
            log[i].call \notin {"collect_repo_context", "llm.summarize", "chat.completions.create"}
       /\ calls = <<>>
       /\ pc \in {"finally", "done"}
       /\ pc = "done" => /\ response.status_code = 400
                         /\ response.error.status = "error"
                         /\ response.error.message = S_EmptyRepo

C8_EmptyRepositoryAnswered ==
  TreeReturnedEmpty /\ pc = "done" /\ response.status_code = 400

(***************************************************************************)
(* C9.  An LLMError whose text holds "authenticate", "authentication" or   *)
(* "unauthorized" in any letter case is answered with 500 and the fixed    *)
(* message that says to check NEBIUS_API_KEY; the message does not hold    *)
(* the error's text.                                                       *)
(***************************************************************************)
AuthFlavored(text) ==
  \/ Contains(TokAuthenticate, Lower(text))
  \/ Contains(TokAuthentication, Lower(text))
  \/ Contains(TokUnauthorized, Lower(text))

T_CheckKey == <<"C","h","e","c","k"," ","N","E","B","I","U","S","_","A","P","I","_","K","E","Y">>

C9_AuthErrorIs500WithFixedMessage ==
  (pc = "done" /\ Raised("LLMError") /\ AuthFlavored(llmResult.exc.msg))
    => /\ response.status_code = 500
       /\ response.error.status = "error"
       /\ response.error.message = S_AuthFailed
       /\ Contains(T_CheckKey, response.error.message)
       /\ ~Contains(llmResult.exc.msg, response.error.message)

C9_UnauthorizedAnswered ==
  /\ pc = "done"
  /\ Raised("LLMError")
  /\ llmResult.exc.causeMsg = E_Unauthorized
  /\ response.status_code = 500

(***************************************************************************)
(* C10.  An LLMError whose text holds none of the three tokens is answered *)
(* with 502 and the fixed generic message, which does not hold the error's *)
(* text.                                                                   *)
(***************************************************************************)
C10_OtherLLMErrorIs502 ==
  (pc = "done" /\ Raised("LLMError") /\ ~AuthFlavored(llmResult.exc.msg))
    => /\ response.status_code = 502
       /\ response.error.status = "error"
       /\ response.error.message = S_LLMFailed
       /\ ~Contains(llmResult.exc.msg, response.error.message)

C10_ParseFailureAnswered ==
  /\ pc = "done"
  /\ Len(replies) = 3
  /\ Unparseable(replies[3])
  /\ Raised("LLMError")
  /\ response.status_code = 502

(***************************************************************************)
(* C11.  When a GitHub step raises GitHubClientError, the response is 404  *)
(* if the error's text says "not found" in any letter case and 502         *)
(* otherwise, in the error shape with the error's text as message, and     *)
(* the model is never called for the request.                              *)
(***************************************************************************)
SaysNotFound(text) == Contains(TokNotFound, Lower(text))

ModelNeverCalled ==
  /\ \A i \in 1..Len(log) : log[i].call \notin {"llm.summarize", "chat.completions.create"}
  /\ calls = <<>>

C11_GitHubClientErrorIs404Or502 ==
  raised.type = "GitHubClientError"
    => /\ ModelNeverCalled
       /\ pc \in {"finally", "done"}
       /\ pc = "done" => /\ response.status_code = IF SaysNotFound(raised.msg) THEN 404 ELSE 502
                         /\ response.error.status = "error"
                         /\ response.error.message = raised.msg

C11_NotFoundAnswered ==
  /\ pc = "done"
  /\ raised = Exc("GitHubClientError", G_NotFound)
  /\ \E i \in 1..Len(log) : log[i] = Called("collect_repo_context", "GitHubClientError")
  /\ response.status_code = 404

(***************************************************************************)
(* C12.  An exception that is neither GitHubClientError nor LLMError is    *)
(* answered with 500 "Internal error during summarization: ..." when it    *)
(* leaves llm.summarize, and with 502 "Failed to fetch repository data:    *)
(* ..." and no model call when it leaves get_default_branch,               *)
(* get_repo_tree or collect_repo_context.                                  *)
(***************************************************************************)
UnexpectedInFetch == raised.type \notin {"", "GitHubClientError"}

UnexpectedInSummarize == llmResult.kind = "raise" /\ llmResult.exc.type # "LLMError"

C12_UnexpectedIs500OnlyInSummarization ==
  /\ UnexpectedInFetch
       => /\ ModelNeverCalled
          /\ pc \in {"finally", "done"}
          /\ pc = "done" => /\ response.status_code = 502
                            /\ response.error.status = "error"
                            /\ response.error.message = S_FailedToFetch \o raised.msg
  /\ (UnexpectedInSummarize /\ pc = "done")
       => /\ response.status_code = 500
          /\ response.error.status = "error"
          /\ response.error.message = S_InternalError \o llmResult.exc.msg

C12_UnexpectedFetchErrorAnswered ==
  /\ pc = "done"
  /\ raised = Exc("Exception", X_Timeout)
  /\ \E i \in 1..Len(log) : log[i] = Called("get_repo_tree", "Exception")
  /\ response.status_code = 502

\* the claim as stated: 500 in whichever phase the exception is raised
C12_UnexpectedIs500InAnyPhase ==
  (pc = "done" /\ (UnexpectedInFetch \/ UnexpectedInSummarize))
    => response.status_code = 500

(***************************************************************************)
(* C13.  With NEBIUS_API_KEY unset or empty, a request with a valid        *)
(* repository URL is answered with 500 in the error shape, the message     *)
(* holds "NEBIUS_API_KEY is not set", and the model is never called.       *)
(***************************************************************************)
T_KeyNotSet == <<"N","E","B","I","U","S","_","A","P","I","_","K","E","Y"," ","i","s"," ","n",
      "o","t"," ","s","e","t">>

ValidUrlInBody ==
  /\ body.json = "ok"
  /\ body.github_url.t = "str"
  /\ \E r \in Requests : body.github_url.v = GithubUrl(r)

C13_MissingKeyIs500 ==
  (apiKey = <<>> /\ ValidUrlInBody)
    => /\ ModelNeverCalled
       /\ pc \in {"request", "start", "done"}
       /\ pc = "done" => /\ response.status_code = 500
                         /\ response.error.status = "error"
                         /\ Contains(T_KeyNotSet, response.error.message)

C13_MissingKeyAnswered ==
  /\ pc = "done"
  /\ apiKey = <<>>
  /\ owner = R_psf
  /\ repo = R_requests
  /\ response.status_code = 500

(***************************************************************************)
(* C14.  A body that is malformed JSON, lacks github_url, carries a        *)
(* github_url that is no string or one that is no GitHub URL is answered   *)
(* with 422 in the error shape with a non-empty message, and no            *)
(* collaborator is called for it: no GitHub call and no model call.        *)
(***************************************************************************)
BodyFailsValidation ==
  \/ body.json = "malformed"
  \/ body.github_url.t # "str"
  \/ ~StartsWith(S_GithubPrefix, body.github_url.v)

C14_InvalidBodyIs422 ==
  BodyFailsValidation
    => /\ log = <<>>
       /\ calls = <<>>
       /\ pc \in {"request", "done"}
       /\ pc = "done" => /\ response.status_code = 422
                         /\ response.error.status = "error"
                         /\ response.error.message # <<>>

C14_EmptyObjectAnswered ==
  /\ pc = "done"
  /\ body = [json |-> "ok", github_url |-> Missing]
  /\ response.status_code = 422

(***************************************************************************)
(* C15.  A request that has not ended has no response yet and stands at a  *)
(* step of the handler or at a pass of the retry loop; a request that has  *)
(* ended takes no further step and has one response: either 200 with the   *)
(* result of llm.summarize as body, or one of 400, 404, 422, 500, 502      *)
(* with status "error" and a non-empty message.                            *)
(***************************************************************************)
ErrorStatusCodes == {400, 404, 422, 500, 502}

IsSummaryResult(r) ==
  /\ r.status_code = 200
  /\ r.error = NoError
  /\ llmResult.kind = "return"
  /\ r.body = llmResult.result

IsStructuredError(r) ==
  /\ r.status_code \in ErrorStatusCodes
  /\ r.error.status = "error"
  /\ r.error.message # <<>>
  /\ r.body = NoResult

\* the handler has a step to take
InFlight ==
  \/ pc \in {"request", "start", "branch", "tree", "context", "finally", "summarize", "respond"}
  \/ pc = "llm" /\ attempt \in 1..max_json_retries

C15_OneResponseResultOrError ==
  /\ pc # "done" => (response = NoResponse /\ InFlight)
  /\ pc = "done" => /\ ~ENABLED Next
                    /\ IsSummaryResult(response) \/ IsStructuredError(response)

C15_RateLimitAnswered ==
  /\ pc = "done"
  /\ response.status_code = 502
  /\ response.error = ErrorResponse(G_RateLimit)

(***************************************************************************)
(* C16.  When llm.summarize is entered, the context handed to it comes     *)
(* from a non-empty file list and holds a "## Directory Structure"         *)
(* section that names the path of every file of the list, also of a file   *)
(* whose content is not included.                                          *)
(***************************************************************************)
Positions(call) == {i \in 1..Len(log) : log[i].call = call}

\* the text from the heading of the directory section up to the next heading
DirectorySection(text) ==
  LET a == Find(S_DirectoryStructure, text)
      b == Find(S_FileContents, text)
  IN IF a = 0 THEN <<>>
     ELSE SubSeq(text, a, IF b = 0 THEN Len(text) ELSE b - 1)

OnlyAfterOk(call, before) ==
  \A i \in Positions(call) : \E j \in 1..(i - 1) : log[j] = Called(before, "ok")

C17_PipelineOrder ==
  /\ \A call \in {"get_default_branch", "get_repo_tree", "collect_repo_context", "llm.summarize"} :
         Cardinality(Positions(call)) <= 1
  /\ OnlyAfterOk("get_repo_tree", "get_default_branch")
  /\ OnlyAfterOk("collect_repo_context", "get_repo_tree")
  /\ OnlyAfterOk("llm.summarize", "collect_repo_context")
  /\ \A i \in Positions("chat.completions.create") :
         \E j \in 1..(i - 1) : log[j].call = "llm.summarize"
  /\ Positions("llm.summarize") # {}
       => /\ files # <<>>
          /\ GithubUrl(args) = body.github_url.v
          /\ args.context = context
          /\ context = collect_repo_context(files)
  /\ Positions("llm.summarize") = {} => args = NoArgs

C17_SummarizeEnteredForAcme ==
  /\ pc = "done"
  /\ Positions("llm.summarize") # {}
  /\ args.owner = R_acme
  /\ args.repo = R_empty_repo
  /\ args.context # <<>>

(***************************************************************************)
(* C18.  The technologies summarize returns are the model's list without   *)
(* its repeated entries, each entry where it first stood in the list.      *)
(***************************************************************************)
\* xs without the entries that occurred earlier in xs
FirstOccurrences(xs) ==
  LET keep == {i \in 1..Len(xs) : \A j \in 1..(i - 1) : xs[j] # xs[i]}
      F[i \in 0..Len(xs)] ==
        IF i = 0 THEN <<>>
        ELSE IF i \in keep THEN Append(F[i - 1], xs[i]) ELSE F[i - 1]
  IN F[Len(xs)]

\* the names in the technologies array of the reply
ModelTechnologies(doc) ==
  IF doc.technologies.t = "list"
  THEN [i \in 1..Len(doc.technologies.v) |-> doc.technologies.v[i].v]
  ELSE <<>>

C18_TechnologiesKeepModelOrder ==
  (llmResult.kind = "return" /\ last.content.doc.technologies.t = "list")
    => llmResult.result.technologies = FirstOccurrences(ModelTechnologies(last.content.doc))

(***************************************************************************)
(* C19.  When llm.summarize returns a result, the response is 200 and its  *)
(* body is that result: the same summary, technologies and structure.      *)
(***************************************************************************)
C19_BodyIsTheResult ==
  (pc = "done" /\ llmResult.kind = "return")
    => /\ response.status_code = 200
       /\ response.body.summary = llmResult.result.summary
       /\ response.body.technologies = llmResult.result.technologies
       /\ response.body.structure = llmResult.result.structure
       /\ DOMAIN response.body = {"summary", "technologies", "structure"}

C19_TwoTechnologiesAnswered ==
  /\ pc = "done"
  /\ llmResult.kind = "return"
  /\ llmResult.result.summary = T_Summary
  /\ Len(llmResult.result.technologies) = 2
  /\ response.status_code = 200

(***************************************************************************)
(* C20.  github.close() is called at most once; when a request for which   *)
(* a GitHubClient was constructed has its response, close() has been       *)
(* called; and close() is called before llm.summarize and every model      *)
(* call.                                                                   *)
(***************************************************************************)
C20_ClosedOnceBeforeResponse ==
  /\ Cardinality(Positions("close")) <= 1
  /\ (pc = "done" /\ Positions("GitHubClient") # {}) => Cardinality(Positions("close")) = 1
  /\ \A i \in Positions("llm.summarize") \cup Positions("chat.completions.create") :
         \E j \in 1..(i - 1) : log[j].call = "close"

(***************************************************************************)
(* C21.  With NEBIUS_API_KEY missing, get_default_branch, get_repo_tree    *)
(* and collect_repo_context are never called: a request with a valid URL   *)
(* ends with the 500 of the missing key right after the clients are        *)
(* constructed, before the first GitHub call.                              *)
(***************************************************************************)
GitHubCalls == {"get_default_branch", "get_repo_tree", "collect_repo_context"}

C21_NoGitHubCallWithoutKey ==
  apiKey = <<>>
    => /\ \A i \in 1..Len(log) : log[i].call \notin GitHubCalls
       /\ files = <<>>
       /\ context = <<>>
       /\ raised = NoExc
       /\ (pc = "done" /\ ValidUrlInBody)
            => /\ log = <<Called("GitHubClient", "ok")>>
               /\ response = JSONResponse(500, ErrorResponse(S_KeyNotSet))

C21_FailedBeforeFirstGitHubCall ==
  /\ pc = "done"
  /\ apiKey = <<>>
  /\ log = <<Called("GitHubClient", "ok")>>
  /\ response.error.message = S_KeyNotSet
====
